---------------------------- MODULE Spec2Model ----------------------------
(***************************************************************************)
(* A model of staticsystem.py: the class StaticSystem, a gravitational     *)
(* system of point masses held in three numpy arrays and a dict.           *)
(*                                                                         *)
(* Numbers.  numpy's float arrays are modelled by exact rationals plus the *)
(* three special values a float division by zero produces.  A number is a  *)
(* pair <<n, d>>: d > 0 is the rational n/d in lowest terms, <<0,0>> is    *)
(* nan, <<1,0>> is inf and <<-1,0>> is -inf.  Rounding is not modelled, so *)
(* every equality below is an equality of exact arithmetic.                *)
(*                                                                         *)
(* Arrays.  A 1-d array is a sequence of numbers, a 2-d array a sequence   *)
(* of rows, a 3-d array a sequence of 2-d arrays.  Slot i of the code      *)
(* (0-based) is element i+1 of the sequence.                               *)
(***************************************************************************)
EXTENDS Integers, Sequences, FiniteSets, TLC

(***************************************************************************)
(* Bounds of the exploration.                                              *)
(***************************************************************************)
\* longest list of bodies handed to the constructor
MaxBodies == 3
\* most mutating calls (in-place step, fix) made on one system
MaxSteps == 3
\* step is explored from states whose finite coordinates are integers of at
\* most this magnitude (their distances are then square roots of integers)
MaxCoord == 6
\* ... and whose finite velocity components have at most this denominator
MaxDen == 1000

(***************************************************************************)
(* Exact arithmetic with nan and the infinities.                           *)
(***************************************************************************)
Abs(n) == IF n < 0 THEN -n ELSE n

Sign(n) == IF n < 0 THEN -1 ELSE IF n = 0 THEN 0 ELSE 1

RECURSIVE GCD(_, _)
GCD(a, b) == IF b = 0 THEN a ELSE GCD(b, a % b)

LCM(a, b) == (a \div GCD(a, b)) * b

NaN == <<0, 0>>
PInf == <<1, 0>>
NInf == <<-1, 0>>
Zero == <<0, 1>>
One == <<1, 1>>

\* the float of the integer n
Num(n) == <<n, 1>>

\* the rational n/d (d # 0) in lowest terms
Rat(n, d) ==
    LET g == GCD(Abs(n), Abs(d))
    IN  <<Sign(d) * (n \div g), Abs(d) \div g>>

IsNaN(x) == x = NaN
IsInf(x) == x[2] = 0 /\ x[1] # 0
IsFinite(x) == x[2] > 0
\* x == 0 in numpy: nan and the infinities are not zero
IsZero(x) == x = Zero

Neg(x) == <<-x[1], x[2]>>

Add(x, y) ==
    IF IsNaN(x) \/ IsNaN(y) THEN NaN
    ELSE IF IsInf(x) /\ IsInf(y) THEN (IF x = y THEN x ELSE NaN)
    ELSE IF IsInf(x) THEN x
    ELSE IF IsInf(y) THEN y
    ELSE LET l == LCM(x[2], y[2])
         IN  Rat(x[1] * (l \div x[2]) + y[1] * (l \div y[2]), l)

Sub(x, y) == Add(x, Neg(y))

Mul(x, y) ==
    IF IsNaN(x) \/ IsNaN(y) THEN NaN
    ELSE IF IsInf(x) \/ IsInf(y)
         THEN (IF x[1] = 0 \/ y[1] = 0 THEN NaN
               ELSE <<Sign(x[1]) * Sign(y[1]), 0>>)
    ELSE LET g1 == GCD(Abs(x[1]), y[2])
             g2 == GCD(Abs(y[1]), x[2])
         IN  <<(x[1] \div g1) * (y[1] \div g2), (x[2] \div g2) * (y[2] \div g1)>>

\* float division: a zero divisor gives nan or an infinity, never an error
Div(x, y) ==
    IF IsNaN(x) \/ IsNaN(y) THEN NaN
    ELSE IF IsInf(y) THEN (IF IsInf(x) THEN NaN ELSE Zero)
    ELSE IF IsZero(y) THEN (IF x[1] = 0 THEN NaN ELSE <<Sign(x[1]), 0>>)
    ELSE IF IsInf(x) THEN <<Sign(x[1]) * Sign(y[1]), 0>>
    ELSE Mul(x, Rat(y[2], y[1]))

Square(x) == Mul(x, x)
Cube(x) == Mul(x, Mul(x, x))

\* the largest r in lo..hi with r*r <= n
RECURSIVE ISqrtIn(_, _, _)
ISqrtIn(n, lo, hi) ==
    IF lo >= hi THEN lo
    ELSE LET mid == (lo + hi + 1) \div 2
         IN  IF mid * mid <= n THEN ISqrtIn(n, mid, hi) ELSE ISqrtIn(n, lo, mid - 1)

ISqrt(n) == ISqrtIn(n, 0, IF n < 46340 THEN n ELSE 46340)

IsSquare(n) == n >= 0 /\ ISqrt(n) * ISqrt(n) = n

\* the numbers whose square root is a number of the model
HasSqrt(x) == ~IsFinite(x) \/ x[1] < 0 \/ (IsSquare(x[1]) /\ IsSquare(x[2]))

\* np.sqrt on a number with HasSqrt
Sqrt(x) ==
    IF IsNaN(x) \/ x[1] < 0 THEN NaN
    ELSE IF IsInf(x) THEN PInf
    ELSE <<ISqrt(x[1]), ISqrt(x[2])>>

(***************************************************************************)
(* numpy on nested sequences.                                              *)
(***************************************************************************)
\* the sequence with the elements of the function f on 1..n
Tup(f) == f \o <<>>

RECURSIVE SumTo(_, _)
\* the sum of the first k numbers of s, from 0.0 on
SumTo(s, k) == IF k = 0 THEN Zero ELSE Add(SumTo(s, k - 1), s[k])

\* ndarray.sum over one axis, given the numbers along that axis
SumSeq(s) == SumTo(s, Len(s))

\* element c of a vector, a vector of length 1 being broadcast
Bc(v, c) == IF Len(v) = 1 THEN v[1] ELSE v[c]

\* a + b, a - b and a * k on 2-d arrays (k a scalar)
Add2(a, b) ==
    Tup([i \in 1..Len(a) |-> Tup([c \in 1..Len(a[i]) |-> Add(a[i][c], b[i][c])])])
Scale2(a, k) ==
    Tup([i \in 1..Len(a) |-> Tup([c \in 1..Len(a[i]) |-> Mul(a[i][c], k)])])
\* a - v, the vector v broadcast over the rows of a
SubRow2(a, v) ==
    Tup([i \in 1..Len(a) |-> Tup([c \in 1..Len(a[i]) |-> Sub(a[i][c], v[c])])])
\* a * m[:, None]: row i of a times m[i]
MulCol2(a, m) ==
    Tup([i \in 1..Len(a) |-> Tup([c \in 1..Len(a[i]) |-> Mul(a[i][c], m[i])])])
\* a.sum(axis=0) of a 2-d array with d columns
SumAxis0(a, d) ==
    Tup([c \in 1..d |-> SumSeq(Tup([i \in 1..Len(a) |-> a[i][c]]))])
\* a / k on a vector
DivVec(v, k) == Tup([c \in 1..Len(v) |-> Div(v[c], k)])

\* np.full((n, n, d), a) for an (n, d) array a, and np.full((n, n), m) for a
\* vector m of length n: the last axes are filled from the argument
Full(n, a) == Tup([i \in 1..n |-> a])
\* g.transpose((1, 0, 2))
Transpose102(g) ==
    Tup([i \in 1..Len(g) |-> Tup([j \in 1..Len(g) |-> g[j][i]])])
\* a - b on 3-d arrays
Sub3(a, b) ==
    Tup([i \in 1..Len(a) |-> Tup([j \in 1..Len(a[i]) |->
        Tup([c \in 1..Len(a[i][j]) |-> Sub(a[i][j][c], b[i][j][c])])])])
\* (a ** 2).sum(axis=2)
SumSquaresAxis2(a) ==
    Tup([i \in 1..Len(a) |-> Tup([j \in 1..Len(a[i]) |->
        SumSeq(Tup([c \in 1..Len(a[i][j]) |-> Square(a[i][j][c])]))])])
\* np.sqrt(a) on a 2-d array
Sqrt2(a) ==
    Tup([i \in 1..Len(a) |-> Tup([j \in 1..Len(a[i]) |-> Sqrt(a[i][j])])])
\* a.reshape((n, n, 1)) of an (n, n) array
Reshape1(a) ==
    Tup([i \in 1..Len(a) |-> Tup([j \in 1..Len(a[i]) |-> <<a[i][j]>>])])
\* a[a == 0] = 1
ZerosToOnes(a) ==
    Tup([i \in 1..Len(a) |-> Tup([j \in 1..Len(a[i]) |->
        Tup([c \in 1..Len(a[i][j]) |->
            IF IsZero(a[i][j][c]) THEN One ELSE a[i][j][c]])])])
\* a * m / (r ** 3), the (n, n, 1) arrays m and r broadcast along the last axis
MulDivCube3(a, m, r) ==
    Tup([i \in 1..Len(a) |-> Tup([j \in 1..Len(a[i]) |->
        Tup([c \in 1..Len(a[i][j]) |->
            Div(Mul(a[i][j][c], Bc(m[i][j], c)), Cube(Bc(r[i][j], c)))])])])
\* a.sum(axis=1) of an (n, n, d) array
SumAxis1(a, d) ==
    Tup([i \in 1..Len(a) |-> Tup([c \in 1..d |->
        SumSeq(Tup([j \in 1..Len(a[i]) |-> a[i][j][c]]))])])

(***************************************************************************)
(* StaticSystem.step, lines 105-123: the acceleration of every slot.       *)
(***************************************************************************)
\* the grids subtracted the other way round
convec_map_swapped(all_positions) ==
    LET shape == <<Len(all_positions), Len(all_positions[1])>>
        horizontal_grid == Full(shape[1], all_positions)
        vertical_grid == Transpose102(horizontal_grid)
    IN  Sub3(horizontal_grid, vertical_grid)

\* lines 106-110
convec_map(all_positions) ==
    LET shape == <<Len(all_positions), Len(all_positions[1])>>
        horizontal_grid == Full(shape[1], all_positions)
        vertical_grid == Transpose102(horizontal_grid)
    IN  Sub3(vertical_grid, horizontal_grid)

\* the distances left squared
dist_map_rs_unrooted(convec) ==
    LET dist_map == SumSquaresAxis2(convec)
    IN  ZerosToOnes(Reshape1(dist_map))

\* lines 113-116
dist_map_rs(convec) ==
    LET dist_map == Sqrt2(SumSquaresAxis2(convec))
    IN  ZerosToOnes(Reshape1(dist_map))

\* the mass of the row's body in place of the column's
mass_matrix_transposed(all_masses) ==
    LET mlen == Len(all_masses)
    IN  Reshape1(Transpose102(Full(mlen, all_masses)))

\* lines 119-121
mass_matrix(all_masses) ==
    LET mlen == Len(all_masses)
    IN  Reshape1(Full(mlen, all_masses))

\* lines 106-123
accelleration(self, grav_const) ==
    LET convec == convec_map(self.all_positions)
        mx == MulDivCube3(convec, mass_matrix(self.all_masses), dist_map_rs(convec))
    IN  Scale2(SumAxis1(mx, Len(self.all_positions[1])), Neg(grav_const))

(***************************************************************************)
(* Python values that reach the constructor, and the instance it builds.   *)
(***************************************************************************)
PyNone == [kind |-> "None", ndim |-> 0, val |-> <<>>]
PyBool(b) == [kind |-> "bool", ndim |-> 0, val |-> b]
PyBody(b) == [kind |-> "PointMass", ndim |-> 0, val |-> b]
PyArray(a, ndim) == [kind |-> "ndarray", ndim |-> ndim, val |-> a]
PyDict(d) == [kind |-> "dict", ndim |-> 0, val |-> d]
PySystem(obj) == [kind |-> "StaticSystem", ndim |-> 0, val |-> obj]

ErrNone == "none"
\* the AttributeError raised on line 57
ErrDuplicate == "AttributeError: there are several objects called"
\* the AttributeError of reading .name of a value that is no PointMass
ErrNoName == "AttributeError: no attribute 'name'"
ErrIndex == "IndexError"
ErrValue == "ValueError"
ErrType == "TypeError"

\* no instance: the constructor raised, or was not called yet
NoSystem ==
    [exists |-> FALSE, bodyindex |-> <<>>, all_positions |-> <<>>,
     all_velocities |-> <<>>, all_masses |-> <<>>]

\* the number of elements of an ndarray of at most two dimensions
ArraySize(x) ==
    IF x.ndim = 1 THEN Len(x.val)
    ELSE IF Len(x.val) = 0 THEN 0 ELSE Len(x.val) * Len(x.val[1])

\* bool(x) as `if x:` computes it: "True", "False", or the ValueError numpy
\* raises for an array of more than one element.  A PointMass is an object
\* without __bool__ or __len__, hence true.
Truth(x) ==
    IF x.kind = "bool" THEN (IF x.val THEN "True" ELSE "False")
    ELSE IF x.kind = "None" THEN "False"
    ELSE IF x.kind = "dict" THEN (IF DOMAIN x.val = {} THEN "False" ELSE "True")
    ELSE IF x.kind = "ndarray"
         THEN (IF ArraySize(x) > 1 THEN ErrValue
               ELSE IF ArraySize(x) = 0 THEN "False"
               ELSE LET item == IF x.ndim = 1 THEN x.val[1] ELSE x.val[1][1]
                    IN  IF IsZero(item) THEN "False" ELSE "True")
    ELSE "True"

RECURSIVE BuildIndex(_, _, _)
\* lines 54-60: the loop over enumerate(args) from position i on, with the
\* dict built so far; the result is the dict, or the error raised
BuildIndex(args, i, bodyindex) ==
    IF i >= Len(args) THEN [err |-> ErrNone, bodyindex |-> bodyindex]
    ELSE LET body == args[i + 1]
         IN  IF body.kind # "PointMass" THEN [err |-> ErrNoName, bodyindex |-> bodyindex]
             ELSE IF body.val.name \in DOMAIN bodyindex
                  THEN [err |-> ErrDuplicate, bodyindex |-> bodyindex]
             ELSE BuildIndex(args, i + 1, (body.val.name :> i) @@ bodyindex)

\* array[i] = vector for a row of d numbers: a vector of length d is copied,
\* a vector of length 1 is broadcast, any other length raises ValueError
RowFits(vector, d) == Len(vector) = d \/ Len(vector) = 1
AssignRow(vector, d) == Tup([c \in 1..d |-> Bc(vector, c)])

\* lines 39-81: StaticSystem(not_yet_initialized, *args).  The result is the
\* error raised (ErrNone if none) and the instance built.
StaticSystem__init__(not_yet_initialized, args) ==
    LET truth == Truth(not_yet_initialized)
        failed(e) == [err |-> e, obj |-> NoSystem]
    IN  IF truth = ErrValue THEN failed(ErrValue)
        ELSE IF truth = "True"
        THEN LET index == BuildIndex(args, 0, [k \in {} |-> 0])
             IN  IF index.err # ErrNone THEN failed(index.err)
                 ELSE IF Len(args) = 0 THEN failed(ErrIndex)
                 ELSE LET n == Len(args)
                          d == Len(args[1].val.position)
                      IN  IF \E i \in 1..n : ~RowFits(args[i].val.position, d)
                                                \/ ~RowFits(args[i].val.velocity, d)
                          THEN failed(ErrValue)
                          ELSE [err |-> ErrNone,
                                obj |-> [exists |-> TRUE,
                                         bodyindex |-> index.bodyindex,
                                         all_positions |->
                                             Tup([i \in 1..n |-> AssignRow(args[i].val.position, d)]),
                                         all_velocities |->
                                             Tup([i \in 1..n |-> AssignRow(args[i].val.velocity, d)]),
                                         all_masses |-> Tup([i \in 1..n |-> args[i].val.mass])]]
        ELSE IF Len(args) < 4 THEN failed(ErrIndex)
        ELSE [err |-> ErrNone,
              obj |-> [exists |-> TRUE, bodyindex |-> args[4].val,
                       all_positions |-> args[1].val, all_velocities |-> args[2].val,
                       all_masses |-> args[3].val]]

(***************************************************************************)
(* The methods.  Each yields the receiver after the call, the error raised *)
(* (ErrNone if none) and the value returned.                               *)
(***************************************************************************)
Outcome(self, err, ret) == [self |-> self, err |-> err, ret |-> ret]

\* lines 83-136
step(self, dt, grav_const, inplace) ==
    LET acc == accelleration(self, grav_const)
        all_positions == Add2(self.all_positions, Scale2(self.all_velocities, dt))
        all_velocities == Add2(self.all_velocities, Scale2(acc, dt))
    IN  IF inplace
        THEN Outcome([self EXCEPT !.all_positions = all_positions,
                                  !.all_velocities = all_velocities], ErrNone, PyNone)
        ELSE LET new_system ==
                     StaticSystem__init__(PyArray(all_positions, 2),
                                          <<PyArray(all_velocities, 2),
                                            PyArray(self.all_masses, 1),
                                            PyDict(self.bodyindex)>>)
             IN  Outcome(self, new_system.err,
                         IF new_system.err = ErrNone THEN PySystem(new_system.obj)
                         ELSE PyNone)

\* lines 138-149
centre_of_mass(self) ==
    LET total_mass == SumSeq(self.all_masses)
        mx == SumAxis0(MulCol2(self.all_positions, self.all_masses),
                       Len(self.all_positions[1]))
        centreofmass == DivVec(mx, total_mass)
    IN  Outcome(self, ErrNone, PyArray(centreofmass, 1))

\* fix() dividing the total pulse by the number of bodies
fix_dividing_by_count(self) ==
    LET all_pulses == MulCol2(self.all_velocities, self.all_masses)
        total_pulse == SumAxis0(all_pulses, Len(self.all_velocities[1]))
        velocity_centre_of_mass == DivVec(total_pulse, Num(Len(self.all_masses)))
    IN  Outcome([self EXCEPT !.all_velocities =
                     SubRow2(self.all_velocities, velocity_centre_of_mass)],
                ErrNone, PyNone)

\* fix() moving the positions with the velocities
fix_moving_positions(self) ==
    LET all_pulses == MulCol2(self.all_velocities, self.all_masses)
        total_pulse == SumAxis0(all_pulses, Len(self.all_velocities[1]))
        total_mass == SumSeq(self.all_masses)
        velocity_centre_of_mass == DivVec(total_pulse, total_mass)
    IN  Outcome([self EXCEPT !.all_velocities =
                     SubRow2(self.all_velocities, velocity_centre_of_mass),
                             !.all_positions =
                     SubRow2(self.all_positions, velocity_centre_of_mass)],
                ErrNone, PyNone)

\* lines 151-159
fix(self) ==
    LET all_pulses == MulCol2(self.all_velocities, self.all_masses)
        total_pulse == SumAxis0(all_pulses, Len(self.all_velocities[1]))
        total_mass == SumSeq(self.all_masses)
        velocity_centre_of_mass == DivVec(total_pulse, total_mass)
    IN  Outcome([self EXCEPT !.all_velocities =
                     SubRow2(self.all_velocities, velocity_centre_of_mass)],
                ErrNone, PyNone)

\* calling f(x): only a function can be called; a dict raises TypeError
Callable(f) == f.kind = "function"

\* lines 161-179
get_body(self, name) ==
    IF ~Callable(PyDict(self.bodyindex)) THEN Outcome(self, ErrType, PyNone)
    ELSE LET index == self.bodyindex[name]
         IN  Outcome(self, ErrNone,
                     PyBody([name |-> name, mass |-> self.all_masses[index + 1],
                             position |-> self.all_positions[index + 1],
                             velocity |-> self.all_velocities[index + 1]]))

(***************************************************************************)
(* The inputs explored.                                                    *)
(***************************************************************************)
Vec(ints) == Tup([c \in 1..Len(ints) |-> Num(ints[c])])

Body(name, mass, position, velocity) ==
    [name |-> name, mass |-> Num(mass), position |-> Vec(position),
     velocity |-> Vec(velocity)]

Names == {"A", "B", "C"}

\* Bodies with distinct and with equal names, with equal and with different
\* positive masses and with mass zero, at distinct and at coincident
\* positions, at rest and moving, and one of another dimension.
BodyMenu ==
    { Body("A", 1, <<0, 0>>, <<0, 0>>),
      Body("A", 2, <<3, 0>>, <<0, -1>>),
      Body("B", 2, <<3, 4>>, <<0, 0>>),
      Body("B", 0, <<0, 4>>, <<1, 1>>),
      Body("B", 1, <<1>>, <<1>>),
      Body("C", 1, <<0, 0>>, <<1, 0>>),
      Body("C", 0, <<3, 4>>, <<0, 0>>) }

DtSet == {Num(1), Num(-1)}
GravConsts == {Num(1), Num(2)}

\* StaticSystem(body1, ..., bodyk) as in the class docstring, and
\* StaticSystem(True, body1, ..., bodyk)
CallForms == {"docstring", "flagged"}

(***************************************************************************)
(* The state: one instance and the last call made on it.                   *)
(***************************************************************************)
VARIABLES
    sys,      \* the instance (NoSystem before and after a failed construction)
    born,     \* the instance as the constructor left it
    pre,      \* the instance as it was when the last call began
    last,     \* the last call: the method, its arguments, the error raised
    ret,      \* the value the last call returned
    nsteps    \* the number of mutating calls made

vars == <<sys, born, pre, last, ret, nsteps>>

Call(op, form, bodies, dt, grav_const, name, err) ==
    [op |-> op, form |-> form, bodies |-> bodies, dt |-> dt,
     grav_const |-> grav_const, name |-> name, err |-> err]

Init ==
    /\ sys = NoSystem
    /\ born = NoSystem
    /\ pre = NoSystem
    /\ last = Call("none", "", <<>>, Zero, Zero, "", ErrNone)
    /\ ret = PyNone
    /\ nsteps = 0

\* the constructor call of the given form on the given list of bodies
Construction(form, bodies) ==
    LET objects == Tup([i \in 1..Len(bodies) |-> PyBody(bodies[i])])
    IN  IF form = "docstring"
        THEN StaticSystem__init__(objects[1], SubSeq(objects, 2, Len(objects)))
        ELSE StaticSystem__init__(PyBool(TRUE), objects)

Construct ==
    /\ last.op = "none"
    /\ \E form \in CallForms, k \in 1..MaxBodies :
         \E bodies \in [1..k -> BodyMenu] :
            LET made == Construction(form, bodies)
            IN  /\ sys' = made.obj
                /\ born' = made.obj
                /\ pre' = sys
                /\ last' = Call("__init__", form, bodies, Zero, Zero, "", made.err)
                /\ ret' = PyNone
                /\ nsteps' = 0

\* The states step is explored from: every finite coordinate is an integer
\* of magnitude at most MaxCoord, every finite velocity component has a
\* denominator of at most MaxDen, and every distance is a number of the model.
Representable(self) ==
    /\ \A i \in 1..Len(self.all_positions) : \A c \in 1..Len(self.all_positions[i]) :
          LET x == self.all_positions[i][c]
              v == self.all_velocities[i][c]
          IN  /\ IsFinite(x) => x[2] = 1 /\ Abs(x[1]) <= MaxCoord
              /\ v[2] <= MaxDen
    /\ LET squares == SumSquaresAxis2(convec_map(self.all_positions))
       IN  \A i \in 1..Len(squares) : \A j \in 1..Len(squares) : HasSqrt(squares[i][j])

\* the effect of a call with outcome out
Returns(op, dt, grav_const, name, out) ==
    /\ sys' = out.self
    /\ pre' = sys
    /\ last' = Call(op, "", <<>>, dt, grav_const, name, out.err)
    /\ ret' = out.ret
    /\ UNCHANGED born

StepInPlace ==
    /\ sys.exists
    /\ nsteps < MaxSteps
    /\ Representable(sys)
    /\ \E dt \in DtSet, grav_const \in GravConsts :
          Returns("step", dt, grav_const, "", step(sys, dt, grav_const, TRUE))
    /\ nsteps' = nsteps + 1

StepCopy ==
    /\ sys.exists
    /\ Representable(sys)
    /\ \E dt \in DtSet, grav_const \in GravConsts :
          Returns("step_copy", dt, grav_const, "", step(sys, dt, grav_const, FALSE))
    /\ UNCHANGED nsteps

CentreOfMass ==
    /\ sys.exists
    /\ Returns("centre_of_mass", Zero, Zero, "", centre_of_mass(sys))
    /\ UNCHANGED nsteps

Fix ==
    /\ sys.exists
    /\ nsteps < MaxSteps
    /\ Returns("fix", Zero, Zero, "", fix(sys))
    /\ nsteps' = nsteps + 1

GetBody ==
    /\ sys.exists
    /\ \E name \in Names : Returns("get_body", Zero, Zero, name, get_body(sys, name))
    /\ UNCHANGED nsteps

Next ==
    \/ Construct
    \/ StepInPlace
    \/ StepCopy
    \/ CentreOfMass
    \/ Fix
    \/ GetBody

Spec == Init /\ [][Next]_vars

(***************************************************************************)
(* Notions the properties are stated with.                                 *)
(***************************************************************************)
NumSlots(self) == Len(self.all_masses)
Dimension(self) == Len(self.all_positions[1])

DistinctNames(bodies) ==
    \A i, j \in 1..Len(bodies) : i # j => bodies[i].name # bodies[j].name

\* every vector of every body has the length of the first body's position
SameDimension(bodies) ==
    \A i \in 1..Len(bodies) :
        /\ Len(bodies[i].position) = Len(bodies[1].position)
        /\ Len(bodies[i].velocity) = Len(bodies[1].position)

TotalMass(self) == SumSeq(self.all_masses)

\* the sum over the slots of mass[i] * velocity[i]
Momentum(self) ==
    SumAxis0(MulCol2(self.all_velocities, self.all_masses), Dimension(self))

ZeroVector(d) == Tup([c \in 1..d |-> Zero])

AllFinite(self) ==
    \A i \in 1..NumSlots(self) : \A c \in 1..Dimension(self) :
        IsFinite(self.all_positions[i][c]) /\ IsFinite(self.all_velocities[i][c])

\* the Euclidean distance of rows i and j of the positions p
Distance(p, i, j) ==
    Sqrt(SumSeq(Tup([c \in 1..Len(p[i]) |-> Square(Sub(p[i][c], p[j][c]))])))

\* a distance with zero replaced by 1
Guarded(dist) == IF IsZero(dist) THEN One ELSE dist

\* -G times the sum over j of mass[j] * (position[j] - position[i]) / distance^3
AccelerationToward(self, grav_const, i, c) ==
    LET p == self.all_positions
    IN  Mul(Neg(grav_const),
            SumSeq(Tup([j \in 1..NumSlots(self) |->
                Div(Mul(self.all_masses[j], Sub(p[j][c], p[i][c])),
                    Cube(Guarded(Distance(p, i, j))))])))

\* -G times the sum over j of mass[j] * (position[i] - position[j]) / distance^3
AccelerationFrom(self, grav_const, i, c) ==
    LET p == self.all_positions
    IN  Mul(Neg(grav_const),
            SumSeq(Tup([j \in 1..NumSlots(self) |->
                Div(Mul(self.all_masses[j], Sub(p[i][c], p[j][c])),
                    Cube(Guarded(Distance(p, i, j))))])))

\* the acceleration the last step applied to row i: (v' - v) / dt
Applied(i) ==
    Tup([c \in 1..Dimension(pre) |->
        Div(Sub(sys.all_velocities[i][c], pre.all_velocities[i][c]), last.dt)])

(***************************************************************************)
(* The properties.                                                         *)
(***************************************************************************)

\* C1: StaticSystem(body1, ..., bodyk), called as in the class docstring on
\* k >= 1 bodies with pairwise distinct names (and of one dimension), builds
\* a system of k slots in which body i (0-based) is mapped to slot i and row
\* i of the three arrays holds that body's position, velocity and mass.
C1_DocstringCallKeepsEveryBody ==
    (last.op = "__init__" /\ last.form = "docstring"
        /\ DistinctNames(last.bodies) /\ SameDimension(last.bodies))
    => /\ last.err = ErrNone
       /\ sys.exists
       /\ NumSlots(sys) = Len(last.bodies)
       /\ \A i \in 1..Len(last.bodies) :
            /\ last.bodies[i].name \in DOMAIN sys.bodyindex
            /\ sys.bodyindex[last.bodies[i].name] = i - 1
            /\ sys.all_positions[i] = last.bodies[i].position
            /\ sys.all_velocities[i] = last.bodies[i].velocity
            /\ sys.all_masses[i] = last.bodies[i].mass

\* C2: get_body(name), for a name of the mapping, completes without error
\* and returns a record with that name and the mass, position and velocity
\* of the name's slot.
C2_GetBodyReturnsTheSlot ==
    (last.op = "get_body" /\ last.name \in DOMAIN pre.bodyindex)
    => /\ last.err = ErrNone
       /\ ret.kind = "PointMass"
       /\ ret.val = [name |-> last.name,
                     mass |-> sys.all_masses[sys.bodyindex[last.name] + 1],
                     position |-> sys.all_positions[sys.bodyindex[last.name] + 1],
                     velocity |-> sys.all_velocities[sys.bodyindex[last.name] + 1]]

\* C3: step(dt, inplace=False) returns a new system whose positions and
\* velocities are those step(dt, inplace=True) leaves in a copy of the
\* receiver and whose masses and mapping are the receiver's; the receiver
\* is unchanged.
C3_StepCopyReturnsAdvancedSystem ==
    last.op = "step_copy"
    => /\ last.err = ErrNone
       /\ ret.kind = "StaticSystem"
       /\ ret.val = step(pre, last.dt, last.grav_const, TRUE).self
       /\ ret.val.all_masses = pre.all_masses
       /\ ret.val.bodyindex = pre.bodyindex
       /\ sys = pre

\* C4: constructing a system from a list of bodies two of which share a
\* name fails with the duplicate-name error and creates no system.
C4_DuplicateNamesAreRejected ==
    (last.op = "__init__" /\ ~DistinctNames(last.bodies))
    => last.err = ErrDuplicate /\ ~sys.exists

\* C5: when the masses sum to zero, centre_of_mass() and fix() raise an
\* error and leave the system as it was.
C5_ZeroTotalMassIsRejected ==
    (last.op \in {"centre_of_mass", "fix"} /\ IsZero(TotalMass(pre)))
    => last.err # ErrNone /\ sys = pre

\* C6: an in-place step leaves the total momentum, the sum over the slots
\* of mass[i] * velocity[i], as it was (so does every sequence of steps).
C6_StepConservesMomentum ==
    last.op = "step" => Momentum(sys) = Momentum(pre)

\* a step of three bodies, two of them at one position, that changed the
\* velocities of a system with momentum
C6_Witness ==
    /\ last.op = "step"
    /\ NumSlots(pre) = 3
    /\ AllFinite(sys)
    /\ \E i, j \in 1..3 : i # j /\ pre.all_positions[i] = pre.all_positions[j]
    /\ \E i \in 1..3 : IsZero(pre.all_masses[i])
    /\ sys.all_velocities # pre.all_velocities
    /\ Momentum(pre) # ZeroVector(Dimension(pre))

\* C7: with two bodies at distinct positions, positive masses m1, m2 and
\* G > 0, the acceleration step applies to body 1 is G*m2/d^2 times the
\* unit vector from body 1 to body 2, the one applied to body 2 is G*m1/d^2
\* times the unit vector from body 2 to body 1, and m1*a1 = -m2*a2.
C7_TwoBodiesAttract ==
    (last.op = "step" /\ NumSlots(pre) = 2
        /\ pre.all_positions[1] # pre.all_positions[2]
        /\ pre.all_masses[1][1] > 0 /\ pre.all_masses[2][1] > 0
        /\ last.grav_const[1] > 0)
    => LET p == pre.all_positions
           m == pre.all_masses
           d == Distance(p, 1, 2)
       IN  \A c \in 1..Dimension(pre) :
             /\ Applied(1)[c] = Mul(Div(Mul(last.grav_const, m[2]), Square(d)),
                                    Div(Sub(p[2][c], p[1][c]), d))
             /\ Applied(2)[c] = Mul(Div(Mul(last.grav_const, m[1]), Square(d)),
                                    Div(Sub(p[1][c], p[2][c]), d))
             /\ Mul(m[1], Applied(1)[c]) = Neg(Mul(m[2], Applied(2)[c]))

\* a step of two bodies of different positive masses whose positions differ
\* in every coordinate
C7_Witness ==
    /\ last.op = "step"
    /\ NumSlots(pre) = 2
    /\ pre.all_masses[1][1] > 0
    /\ pre.all_masses[2][1] > pre.all_masses[1][1]
    /\ Dimension(pre) = 2
    /\ \A c \in 1..2 : pre.all_positions[1][c] # pre.all_positions[2][c]
    /\ Applied(1) # ZeroVector(2)

\* C8: fix() is idempotent: after fix() on a system of non-zero total mass,
\* the momentum is the zero vector and a second fix() changes nothing.
C8_FixIsIdempotent ==
    (last.op = "fix" /\ ~IsZero(TotalMass(pre)))
    => /\ fix(sys).self = sys
       /\ Momentum(sys) = ZeroVector(Dimension(sys))

\* a fix() that changed the velocities of bodies of different masses
C8_Witness ==
    /\ last.op = "fix"
    /\ ~IsZero(TotalMass(pre))
    /\ NumSlots(pre) >= 2
    /\ \E i, j \in 1..NumSlots(pre) : pre.all_masses[i] # pre.all_masses[j]
    /\ sys.all_velocities # pre.all_velocities

\* C9: in every state reached by in-place step, fix and centre_of_mass the
\* three arrays and the mapping all have N entries, the mapping and the
\* masses are those of the construction, centre_of_mass changes nothing and
\* fix changes only the velocities.
C9_ShapeAndSlotsAreStable ==
    sys.exists
    => /\ Len(sys.all_positions) = NumSlots(sys)
       /\ Len(sys.all_velocities) = NumSlots(sys)
       /\ Cardinality(DOMAIN sys.bodyindex) = NumSlots(sys)
       /\ sys.bodyindex = born.bodyindex
       /\ sys.all_masses = born.all_masses
       /\ (last.op = "centre_of_mass" => sys = pre)
       /\ (last.op = "fix" => /\ sys.all_positions = pre.all_positions
                              /\ sys.all_masses = pre.all_masses
                              /\ sys.bodyindex = pre.bodyindex)

\* a fix() that changed the velocities of a three-body system after a step
C9_Witness ==
    /\ last.op = "fix"
    /\ nsteps = 2
    /\ NumSlots(sys) = 3
    /\ pre.all_positions # born.all_positions
    /\ sys.all_velocities # pre.all_velocities

\* C10 as stated: the displacement of the ordered pair (i, j) is
\* position[j] - position[i], and the acceleration that updates the velocity
\* of slot i is -G times the sum over j of mass[j] * displacement(i, j) /
\* distance(i, j)^3, zero distances replaced by 1.
C10_DisplacementIsJMinusI ==
    last.op = "step"
    => \A i \in 1..NumSlots(pre) : \A c \in 1..Dimension(pre) :
         /\ \A j \in 1..NumSlots(pre) :
               convec_map(pre.all_positions)[i][j][c]
                   = Sub(pre.all_positions[j][c], pre.all_positions[i][c])
         /\ sys.all_velocities[i][c]
               = Add(pre.all_velocities[i][c],
                     Mul(AccelerationToward(pre, last.grav_const, i, c), last.dt))

\* C10 amended: the displacement of the ordered pair (i, j) is
\* position[i] - position[j]; the rest as stated.
C10_DisplacementIsIMinusJ ==
    last.op = "step"
    => \A i \in 1..NumSlots(pre) : \A c \in 1..Dimension(pre) :
         /\ \A j \in 1..NumSlots(pre) :
               convec_map(pre.all_positions)[i][j][c]
                   = Sub(pre.all_positions[i][c], pre.all_positions[j][c])
         /\ sys.all_velocities[i][c]
               = Add(pre.all_velocities[i][c],
                     Mul(AccelerationFrom(pre, last.grav_const, i, c), last.dt))

\* a step of three bodies at three positions, all of them accelerated
C10_Witness ==
    /\ last.op = "step"
    /\ NumSlots(pre) = 3
    /\ AllFinite(sys)
    /\ \A i, j \in 1..3 : i # j => pre.all_positions[i] # pre.all_positions[j]
    /\ \A i \in 1..3 : sys.all_velocities[i] # pre.all_velocities[i]

=============================================================================
